---- MODULE Spec2Model ----
(***************************************************************************)
(* Model of the password generator app (src/script.js).  The file holds    *)
(* two revisions of class PasswordGenerator: revision 1 (lines 3-333) and  *)
(* revision 2 (lines 344-757, the one with handleGenerateClick).  The      *)
(* variable rev says which revision a behaviour runs.                      *)
(*                                                                         *)
(* Strings are sequences of one-character strings.  Math.random() is       *)
(* modelled by a tape of TapeLen values k/RandDen (k in 0..RandDen-1) that *)
(* the calls of one handler read cyclically: every outcome of the first    *)
(* TapeLen independent draws of a handler is covered.                      *)
(***************************************************************************)
EXTENDS Integers, Sequences, FiniteSets, TLC

\* ------------------------------------------------------------------ bounds
\* largest value of the length slider the model enumerates
MaxLength == 3
\* Math.random() returns k/RandDen, k in 0..RandDen-1
RandDen == 2
\* number of independent random values on a tape
TapeLen == 3
\* number of user events of one behaviour
MaxEvents == 3
\* longest padding of a scorer input
MaxPad == 16
\* longest free prefix of a scorer input
MaxPrefix == 3
\* longest input of the shuffle harness
MaxShuffleLen == 4

\* --------------------------------------------------------- character sets
uppercase ==
  << "A","B","C","D","E","F","G","H","I","J","K","L","M",
     "N","O","P","Q","R","S","T","U","V","W","X","Y","Z" >>

lowercase ==
  << "a","b","c","d","e","f","g","h","i","j","k","l","m",
     "n","o","p","q","r","s","t","u","v","w","x","y","z" >>

numbers == << "0","1","2","3","4","5","6","7","8","9" >>

symbols ==
  << "!","@","#","$","%","^","&","*","(",")","_","+","-",
     "=","[","]","{","}","|",";",":",",",".","<",">","?" >>

\* the message of revision 1 for an empty configuration
PleaseSelect ==
  << "P","l","e","a","s","e"," ","s","e","l","e","c","t"," ",
     "a","t"," ","l","e","a","s","t"," ","o","n","e"," ",
     "o","p","t","i","o","n" >>

Range(s) == { s[i] : i \in 1..Len(s) }

Revisions == {1, 2}

VARIABLES
  rev,                 \* which revision of the class runs
  lengthSlider,        \* parseInt(lengthSlider.value)
  uppercaseCheckbox, lowercaseCheckbox, numbersCheckbox, symbolsCheckbox,
  passwordOutput,      \* passwordOutput.value
  strengthText,        \* strengthText.textContent
  strengthBars,        \* class of each .strength-bar ("" = not filled)
  generateBtnDisabled, \* generateBtn.disabled
  isFirstGenerate,     \* revision 2 only
  timers,              \* pending 100 ms timers of animatePasswordChange, oldest first
  event,               \* the handler that ran last
  signal,              \* the path the last generatePassword call took
  draws,               \* number of Math.random() calls of the last generatePassword call
  meterArg,            \* the strength last passed to updateStrengthMeter
  lastPassword,        \* the password built by the last successful generation
  nEvents,             \* number of user events handled
  scoreInput,          \* scorer harness: the input string
  scoreResult,         \* scorer harness: << >>, or << v >> once v is returned
  clipboard,           \* the text on the system clipboard (<< >>: none written)
  copyPending,         \* texts of the copyPassword calls awaiting writeText, oldest first
  copySuccess,         \* the '.copy-success' message has class 'show'
  shuffleInput,        \* shuffle harness: the input string
  shuffleTape,         \* shuffle harness: the random values
  shuffleResult        \* shuffle harness: << >>, or << s >> once s is returned

vars == << rev, lengthSlider, uppercaseCheckbox, lowercaseCheckbox, numbersCheckbox,
           symbolsCheckbox, passwordOutput, strengthText, strengthBars,
           generateBtnDisabled, isFirstGenerate, timers, event, signal, draws,
           meterArg, lastPassword, nEvents, scoreInput, scoreResult,
           clipboard, copyPending, copySuccess,
           shuffleInput, shuffleTape, shuffleResult >>

copyVars == << clipboard, copyPending, copySuccess >>

shuffleVars == << shuffleInput, shuffleTape, shuffleResult >>

\* ------------------------------------------------------------ random source
Tapes == [1..TapeLen -> 0..(RandDen - 1)]

\* the tapes the event handlers of the page draw from: Math.random() at its
\* least and at its greatest value
PageTapes == { [ i \in 1..TapeLen |-> k ] : k \in {0, RandDen - 1} }

\* Math.floor(Math.random() * size), for the n-th call (n = 0, 1, ...) of a handler
RandomIndex(tape, n, size) == (tape[(n % TapeLen) + 1] * size) \div RandDen

\* ---------------------------------------------------------------- generator
\* mutant: the available characters do not follow the checkboxes
availableCharsAll(hasUppercase, hasLowercase, hasNumbers, hasSymbols) ==
  uppercase \o lowercase \o numbers \o symbols

availableChars(hasUppercase, hasLowercase, hasNumbers, hasSymbols) ==
  (IF hasUppercase THEN uppercase ELSE << >>) \o
  (IF hasLowercase THEN lowercase ELSE << >>) \o
  (IF hasNumbers THEN numbers ELSE << >>) \o
  (IF hasSymbols THEN symbols ELSE << >>)

selectedTypes(hasUppercase, hasLowercase, hasNumbers, hasSymbols) ==
  (IF hasUppercase THEN << uppercase >> ELSE << >>) \o
  (IF hasLowercase THEN << lowercase >> ELSE << >>) \o
  (IF hasNumbers THEN << numbers >> ELSE << >>) \o
  (IF hasSymbols THEN << symbols >> ELSE << >>)

\* mutant: the one-character-per-type pass is left out
ClassDrawsNone(types, tape) == << >>

\* selectedTypes.forEach(charSet => password += charSet[random index])
ClassDraws(types, tape) ==
  [ i \in 1..Len(types) |-> types[i][RandomIndex(tape, i - 1, Len(types[i])) + 1] ]

\* for (let i = password.length; i < length; i++) password += availableChars[random index]
RECURSIVE FillRest(_, _, _, _)
FillRest(password, length, avail, tape) ==
  IF Len(password) < length
    THEN FillRest(Append(password, avail[RandomIndex(tape, Len(password), Len(avail)) + 1]),
                  length, avail, tape)
    ELSE password

\* mutant: the swap writes arr[j] to arr[i] and loses arr[i]
SwapOverwrite(arr, a, b) == [ arr EXCEPT ![a] = arr[b] ]

Swap(arr, a, b) == [ arr EXCEPT ![a] = arr[b], ![b] = arr[a] ]

\* const j = Math.floor(Math.random() * (i + 1)), for the n-th random call
ShuffleIndex(i, tape, n) == RandomIndex(tape, n, i + 1)

\* the loop of shuffleString: i is the 0-based index, n the number of random calls so far
RECURSIVE ShuffleLoop(_, _, _, _)
ShuffleLoop(arr, i, tape, n) ==
  IF i > 0
    THEN ShuffleLoop(Swap(arr, i + 1, ShuffleIndex(i, tape, n) + 1), i - 1, tape, n + 1)
    ELSE arr

\* shuffleString(str), the random calls of the handler numbered from n on
shuffleString(str, tape, n) == ShuffleLoop(str, Len(str) - 1, tape, n)

\* the password generatePassword builds once it has passed its two early returns
BuildPassword(length, hasUppercase, hasLowercase, hasNumbers, hasSymbols, tape) ==
  LET types == selectedTypes(hasUppercase, hasLowercase, hasNumbers, hasSymbols)
      avail == availableChars(hasUppercase, hasLowercase, hasNumbers, hasSymbols)
      filled == FillRest(ClassDraws(types, tape), length, avail, tape)
  IN  shuffleString(filled, tape, Len(filled))

\* Math.random() calls of one build: one per character, one per swap
DrawCount(password) == Len(password) + (IF Len(password) > 0 THEN Len(password) - 1 ELSE 0)

\* ------------------------------------------------------------------- scorer
Bonus(cond) == IF cond THEN 1 ELSE 0

Min(a, b) == IF a < b THEN a ELSE b

Test(charset, password) == \E i \in 1..Len(password) : password[i] \in Range(charset)

\* mutant: the scorer without its mixed-case bonus
calculatePasswordStrengthNoMixedCase(password) ==
  LET hasUppercase == Test(uppercase, password)
      hasLowercase == Test(lowercase, password)
      hasNumbers == Test(numbers, password)
      hasSymbols == Test(symbols, password)
      varietyCount == Bonus(hasUppercase) + Bonus(hasLowercase)
                      + Bonus(hasNumbers) + Bonus(hasSymbols)
      score == Bonus(Len(password) >= 8) + Bonus(Len(password) >= 12)
               + Bonus(Len(password) >= 16)
               + (varietyCount - 1)
               + Bonus(hasNumbers /\ hasSymbols)
  IN  Min(score, 4)

calculatePasswordStrength(password) ==
  LET hasUppercase == Test(uppercase, password)
      hasLowercase == Test(lowercase, password)
      hasNumbers == Test(numbers, password)
      hasSymbols == Test(symbols, password)
      varietyCount == Bonus(hasUppercase) + Bonus(hasLowercase)
                      + Bonus(hasNumbers) + Bonus(hasSymbols)
      score == Bonus(Len(password) >= 8) + Bonus(Len(password) >= 12)
               + Bonus(Len(password) >= 16)
               + (varietyCount - 1)
               + Bonus(hasUppercase /\ hasLowercase)
               + Bonus(hasNumbers /\ hasSymbols)
  IN  Min(score, 4)

\* ----------------------------------------------------------- strength meter
HasPassword(value) == value # << >> /\ value # PleaseSelect

\* mutant: the labels of 0 and 1 are exchanged
MeterTextSwapped(value, strength) ==
  IF ~HasPassword(value) THEN ""
  ELSE IF strength = 0 THEN "Weak"
  ELSE IF strength = 1 THEN "Too Weak"
  ELSE IF strength = 2 THEN "Medium"
  ELSE IF strength = 3 THEN "Strong"
  ELSE "Very Strong"

MeterText(value, strength) ==
  IF ~HasPassword(value) THEN ""
  ELSE IF strength = 0 THEN "Too Weak"
  ELSE IF strength = 1 THEN "Weak"
  ELSE IF strength = 2 THEN "Medium"
  ELSE IF strength = 3 THEN "Strong"
  ELSE "Very Strong"

MeterLevel(strength) ==
  IF strength = 0 \/ strength = 1 THEN "weak"
  ELSE IF strength = 2 THEN "medium"
  ELSE IF strength = 3 THEN "strong"
  ELSE "very-strong"

\* the bars after updateStrengthMeter(strength) with `value` in the display
MeterBars(bars, value, strength) ==
  [ i \in 1..Len(bars) |->
      IF HasPassword(value) /\ i - 1 < strength THEN MeterLevel(strength) ELSE "" ]

\* updateStrengthMeter(strength) on the page d
updateStrengthMeter(d, strength) ==
  [ d EXCEPT !.strengthText = MeterText(d.passwordOutput, strength),
             !.strengthBars = MeterBars(d.strengthBars, d.passwordOutput, strength),
             !.meterArg = strength ]

\* animatePasswordChange(newPassword) on the page d
animatePasswordChange(d, newPassword) ==
  IF d.passwordOutput = newPassword
    THEN d
    ELSE [ d EXCEPT !.timers = Append(d.timers, newPassword) ]

\* ---------------------------------------------------------- generatePassword
\* mutant: the zero-length branch does not enable the button again
ZeroLengthBranchKeepsButton(d) ==
  [ updateStrengthMeter([ d EXCEPT !.passwordOutput = << >> ], 0)
      EXCEPT !.signal = "EmptyString", !.draws = 0 ]

\* if (length === 0) { ... return; }
ZeroLengthBranch(d) ==
  [ updateStrengthMeter([ d EXCEPT !.passwordOutput = << >> ], 0)
      EXCEPT !.generateBtnDisabled = FALSE, !.signal = "EmptyString", !.draws = 0 ]

\* mutant: the empty-configuration branch does not disable the button
EmptyConfigurationBranchKeepsButton(d, r) ==
  [ updateStrengthMeter(
      IF r = 1 THEN [ d EXCEPT !.passwordOutput = PleaseSelect ] ELSE d, 0)
      EXCEPT !.signal = "EmptyConfiguration", !.draws = 0 ]

\* if (!hasUppercase && !hasLowercase && !hasNumbers && !hasSymbols) { ... return; }
EmptyConfigurationBranch(d, r) ==
  [ updateStrengthMeter(
      IF r = 1 THEN [ d EXCEPT !.passwordOutput = PleaseSelect ] ELSE d, 0)
      EXCEPT !.generateBtnDisabled = TRUE, !.signal = "EmptyConfiguration", !.draws = 0 ]

\* mutant: the generation path does not enable the button again
GenerateBranchKeepsButton(d, length, hasUppercase, hasLowercase, hasNumbers, hasSymbols, tape) ==
  LET password == BuildPassword(length, hasUppercase, hasLowercase, hasNumbers,
                                hasSymbols, tape)
      shown == animatePasswordChange(d, password)
  IN  [ updateStrengthMeter(shown, calculatePasswordStrength(password))
          EXCEPT !.signal = "Generated", !.draws = DrawCount(password),
                 !.lastPassword = password ]

\* the rest of generatePassword
GenerateBranch(d, length, hasUppercase, hasLowercase, hasNumbers, hasSymbols, tape) ==
  LET password == BuildPassword(length, hasUppercase, hasLowercase, hasNumbers,
                                hasSymbols, tape)
      shown == animatePasswordChange([ d EXCEPT !.generateBtnDisabled = FALSE ], password)
  IN  [ updateStrengthMeter(shown, calculatePasswordStrength(password))
          EXCEPT !.signal = "Generated", !.draws = DrawCount(password),
                 !.lastPassword = password ]

generatePassword(d, r, length, hasUppercase, hasLowercase, hasNumbers, hasSymbols, tape) ==
  IF length = 0 THEN ZeroLengthBranch(d)
  ELSE IF ~hasUppercase /\ ~hasLowercase /\ ~hasNumbers /\ ~hasSymbols
    THEN EmptyConfigurationBranch(d, r)
  ELSE GenerateBranch(d, length, hasUppercase, hasLowercase, hasNumbers, hasSymbols, tape)

\* --------------------------------------------------------------------- page
\* the part of the state generatePassword reads and writes
Page ==
  [ passwordOutput |-> passwordOutput, strengthText |-> strengthText,
    strengthBars |-> strengthBars, generateBtnDisabled |-> generateBtnDisabled,
    timers |-> timers, signal |-> signal, draws |-> draws, meterArg |-> meterArg,
    lastPassword |-> lastPassword ]

\* the page before the constructor runs
BlankPage ==
  [ passwordOutput |-> << >>, strengthText |-> "",
    strengthBars |-> << "", "", "", "" >>, generateBtnDisabled |-> FALSE,
    timers |-> << >>, signal |-> "None", draws |-> 0, meterArg |-> 0,
    lastPassword |-> << >> ]

SetPage(d) ==
  /\ passwordOutput' = d.passwordOutput
  /\ strengthText' = d.strengthText
  /\ strengthBars' = d.strengthBars
  /\ generateBtnDisabled' = d.generateBtnDisabled
  /\ timers' = d.timers
  /\ signal' = d.signal
  /\ draws' = d.draws
  /\ meterArg' = d.meterArg
  /\ lastPassword' = d.lastPassword

\* ------------------------------------------------------------------ actions
\* new PasswordGenerator() on the freshly loaded page.  The markup is not part
\* of the sources; the controls start with the slider at 0 and no box checked,
\* the page on which the constructor's generatePassword() "will show placeholder"
\* (line 354).  Every other configuration is reached through the events.
Constructed ==
  /\ rev \in Revisions
  /\ lengthSlider = 0
  /\ uppercaseCheckbox = FALSE
  /\ lowercaseCheckbox = FALSE
  /\ numbersCheckbox = FALSE
  /\ symbolsCheckbox = FALSE
  /\ isFirstGenerate = (rev = 2)
  /\ LET d == generatePassword(BlankPage, rev, 0, FALSE, FALSE, FALSE, FALSE,
                                [ i \in 1..TapeLen |-> 0 ])
     IN  /\ passwordOutput = d.passwordOutput
         /\ strengthText = d.strengthText
         /\ strengthBars = d.strengthBars
         /\ generateBtnDisabled = d.generateBtnDisabled
         /\ timers = d.timers
         /\ signal = d.signal
         /\ draws = d.draws
         /\ meterArg = d.meterArg
         /\ lastPassword = d.lastPassword
  /\ event = "constructor"
  /\ nEvents = 0
  /\ clipboard = << >>
  /\ copyPending = << >>
  /\ copySuccess = FALSE

\* the shuffle harness at rest
NoShuffle ==
  /\ shuffleInput = << >>
  /\ shuffleTape = << >>
  /\ shuffleResult = << >>

Init ==
  /\ Constructed
  /\ scoreInput = << >>
  /\ scoreResult = << >>
  /\ NoShuffle

Handled(name) ==
  /\ nEvents < MaxEvents
  /\ nEvents' = nEvents + 1
  /\ event' = name
  /\ UNCHANGED << rev, scoreInput, scoreResult, shuffleVars >>

\* lengthSlider 'input': updateLengthValue(); generatePassword()
SliderInput ==
  \E v \in 0..MaxLength, tape \in PageTapes :
    /\ v # lengthSlider
    /\ Handled("input")
    /\ UNCHANGED copyVars
    /\ lengthSlider' = v
    /\ SetPage(generatePassword(Page, rev, v, uppercaseCheckbox, lowercaseCheckbox,
                                numbersCheckbox, symbolsCheckbox, tape))
    /\ UNCHANGED << uppercaseCheckbox, lowercaseCheckbox, numbersCheckbox,
                    symbolsCheckbox, isFirstGenerate >>

\* a checkbox 'change': the box is toggled, then generatePassword()
CheckboxChange ==
  \E box \in {"uppercase", "lowercase", "numbers", "symbols"}, tape \in PageTapes :
    /\ Handled("change")
    /\ UNCHANGED copyVars
    /\ uppercaseCheckbox' = (uppercaseCheckbox # (box = "uppercase"))
    /\ lowercaseCheckbox' = (lowercaseCheckbox # (box = "lowercase"))
    /\ numbersCheckbox' = (numbersCheckbox # (box = "numbers"))
    /\ symbolsCheckbox' = (symbolsCheckbox # (box = "symbols"))
    /\ SetPage(generatePassword(Page, rev, lengthSlider, uppercaseCheckbox',
                                lowercaseCheckbox', numbersCheckbox', symbolsCheckbox', tape))
    /\ UNCHANGED << lengthSlider, isFirstGenerate >>

\* mutant: handleGenerateClick never clears isFirstGenerate
GenerateClickAlwaysFirst ==
  \E tape \in PageTapes :
    /\ ~generateBtnDisabled
    /\ Handled("click")
    /\ UNCHANGED copyVars
    /\ IF rev = 2 /\ isFirstGenerate
         THEN /\ lengthSlider' = 8
              /\ uppercaseCheckbox' = TRUE
              /\ lowercaseCheckbox' = TRUE
              /\ numbersCheckbox' = TRUE
              /\ symbolsCheckbox' = FALSE
              /\ isFirstGenerate' = TRUE
         ELSE UNCHANGED << lengthSlider, uppercaseCheckbox, lowercaseCheckbox,
                           numbersCheckbox, symbolsCheckbox, isFirstGenerate >>
    /\ SetPage(generatePassword(Page, rev, lengthSlider', uppercaseCheckbox',
                                lowercaseCheckbox', numbersCheckbox', symbolsCheckbox', tape))

\* generateBtn 'click' (a disabled button fires no click): generatePassword() in
\* revision 1, handleGenerateClick() in revision 2
GenerateClick ==
  \E tape \in PageTapes :
    /\ ~generateBtnDisabled
    /\ Handled("click")
    /\ UNCHANGED copyVars
    /\ IF rev = 2 /\ isFirstGenerate
         THEN /\ lengthSlider' = 8
              /\ uppercaseCheckbox' = TRUE
              /\ lowercaseCheckbox' = TRUE
              /\ numbersCheckbox' = TRUE
              /\ symbolsCheckbox' = FALSE
              /\ isFirstGenerate' = FALSE
         ELSE UNCHANGED << lengthSlider, uppercaseCheckbox, lowercaseCheckbox,
                           numbersCheckbox, symbolsCheckbox, isFirstGenerate >>
    /\ SetPage(generatePassword(Page, rev, lengthSlider', uppercaseCheckbox',
                                lowercaseCheckbox', numbersCheckbox', symbolsCheckbox', tape))

\* document 'keydown' with Ctrl/Meta + Enter.  Revision 1 calls generatePassword().
\* Revision 2 destructures preventDefault from the event and calls it unbound,
\* which throws a TypeError before generatePassword() is reached.
KeydownEnter ==
  \E tape \in PageTapes :
    /\ Handled("keydown")
    /\ UNCHANGED copyVars
    /\ IF rev = 1
         THEN SetPage(generatePassword(Page, rev, lengthSlider, uppercaseCheckbox,
                                       lowercaseCheckbox, numbersCheckbox,
                                       symbolsCheckbox, tape))
         ELSE SetPage(Page)
    /\ UNCHANGED << lengthSlider, uppercaseCheckbox, lowercaseCheckbox, numbersCheckbox,
                    symbolsCheckbox, isFirstGenerate >>

\* the oldest 100 ms timer of animatePasswordChange fires
TimerFired ==
  /\ timers # << >>
  /\ passwordOutput' = Head(timers)
  /\ timers' = Tail(timers)
  /\ event' = "timeout"
  /\ UNCHANGED << rev, lengthSlider, uppercaseCheckbox, lowercaseCheckbox,
                  numbersCheckbox, symbolsCheckbox, strengthText, strengthBars,
                  generateBtnDisabled, isFirstGenerate, signal, draws, meterArg,
                  lastPassword, nEvents, scoreInput, scoreResult, copyVars,
                  shuffleVars >>

\* ------------------------------------------------------------------- copy
\* what the generation handlers read and write
generationVars ==
  << lengthSlider, uppercaseCheckbox, lowercaseCheckbox, numbersCheckbox,
     symbolsCheckbox, passwordOutput, strengthText, strengthBars,
     generateBtnDisabled, isFirstGenerate, timers, signal, draws, meterArg,
     lastPassword >>

\* copyPassword() up to its await: nothing happens on an empty display or the
\* message, otherwise navigator.clipboard.writeText(password) is started
copyPassword ==
  IF ~HasPassword(passwordOutput)
    THEN UNCHANGED copyVars
    ELSE /\ copyPending' = Append(copyPending, passwordOutput)
         /\ UNCHANGED << clipboard, copySuccess >>

\* copyBtn 'click': copyPassword()
CopyClick ==
  /\ Handled("copy")
  /\ copyPassword
  /\ UNCHANGED generationVars

\* document 'keydown' with Ctrl/Meta + c while the display has the focus:
\* copyPassword() in revision 1; in revision 2 the unbound preventDefault() throws
KeydownCopy ==
  /\ Handled("keydownCopy")
  /\ IF rev = 1 THEN copyPassword ELSE UNCHANGED copyVars
  /\ UNCHANGED generationVars

\* mutant: the fallback uses the display as its text area and removes its text
CopySettledUsesDisplay ==
  /\ copyPending # << >>
  /\ copyPending' = Tail(copyPending)
  /\ \/ /\ event' = "copyWritten"
        /\ clipboard' = Head(copyPending)
        /\ copySuccess' = TRUE
        /\ UNCHANGED passwordOutput
     \/ /\ event' = "copyFallback"
        /\ clipboard' = Head(copyPending)
        /\ copySuccess' = TRUE
        /\ passwordOutput' = << >>
  /\ UNCHANGED << rev, lengthSlider, uppercaseCheckbox, lowercaseCheckbox,
                  numbersCheckbox, symbolsCheckbox, strengthText, strengthBars,
                  generateBtnDisabled, isFirstGenerate, timers, signal, draws,
                  meterArg, lastPassword, nEvents, scoreInput, scoreResult,
                  shuffleVars >>

\* the oldest writeText settles and copyPassword() resumes: the text is written
\* and showCopySuccess() runs; or writeText failed and
\* fallbackCopyTextToClipboard(text) runs, whose execCommand('copy') copies the
\* text, returns false without copying (showCopySuccess() runs all the same),
\* or throws
CopySettled ==
  /\ copyPending # << >>
  /\ copyPending' = Tail(copyPending)
  /\ \/ /\ event' = "copyWritten"
        /\ clipboard' = Head(copyPending)
        /\ copySuccess' = TRUE
     \/ /\ event' = "copyFallback"
        /\ clipboard' = Head(copyPending)
        /\ copySuccess' = TRUE
     \/ /\ event' = "copyUnsupported"
        /\ copySuccess' = TRUE
        /\ UNCHANGED clipboard
     \/ /\ event' = "copyFailed"
        /\ UNCHANGED << clipboard, copySuccess >>
  /\ UNCHANGED << rev, generationVars, nEvents, scoreInput, scoreResult, shuffleVars >>

\* a 2000 ms timer of showCopySuccess hides the message
CopySuccessHidden ==
  /\ copySuccess
  /\ copySuccess' = FALSE
  /\ event' = "copyHidden"
  /\ UNCHANGED << rev, generationVars, nEvents, scoreInput, scoreResult,
                  clipboard, copyPending, shuffleVars >>

Next ==
  \/ SliderInput \/ CheckboxChange \/ GenerateClick \/ KeydownEnter \/ TimerFired
  \/ CopyClick \/ KeydownCopy \/ CopySettled \/ CopySuccessHidden

Spec == Init /\ [][Next]_vars

\* ------------------------------------------------------- generator harness
\* window.passwordGenerator.generateTestPassword(length, options): a new
\* PasswordGenerator, its controls set to the arguments, then generatePassword()
generateTestPassword ==
  \E length \in 0..MaxLength, u \in BOOLEAN, l \in BOOLEAN, n \in BOOLEAN,
     s \in BOOLEAN, tape \in Tapes :
    /\ event = "constructor"
    /\ event' = "generateTestPassword"
    /\ lengthSlider' = length
    /\ uppercaseCheckbox' = u
    /\ lowercaseCheckbox' = l
    /\ numbersCheckbox' = n
    /\ symbolsCheckbox' = s
    /\ SetPage(generatePassword(Page, rev, length, u, l, n, s, tape))
    /\ UNCHANGED << rev, isFirstGenerate, nEvents, scoreInput, scoreResult,
                    copyVars, shuffleVars >>

NextGen == generateTestPassword \/ TimerFired

SpecGen == Init /\ [][NextGen]_vars

\* ---------------------------------------------------------- scorer harness
\* one character of each class and one of none
SampleChars == { "A", "z", "5", "#", " " }

Pad(c, n) == [ i \in 1..n |-> c ]

\* a free prefix of up to MaxPrefix sample characters, padded with up to MaxPad
\* copies of one sample character
ScoreInputs ==
  { prefix \o Pad(c, n) :
      prefix \in UNION { [1..k -> SampleChars] : k \in 0..MaxPrefix },
      c \in SampleChars, n \in 0..MaxPad }

InitScore ==
  /\ Constructed
  /\ scoreInput \in ScoreInputs
  /\ scoreResult = << >>
  /\ NoShuffle

\* the harness calls calculatePasswordStrength(scoreInput)
Score ==
  /\ scoreResult = << >>
  /\ scoreResult' = << calculatePasswordStrength(scoreInput) >>
  /\ UNCHANGED << rev, lengthSlider, uppercaseCheckbox, lowercaseCheckbox,
                  numbersCheckbox, symbolsCheckbox, passwordOutput, strengthText,
                  strengthBars, generateBtnDisabled, isFirstGenerate, timers, event,
                  signal, draws, meterArg, lastPassword, nEvents, scoreInput,
                  copyVars, shuffleVars >>

NextScore == Score

SpecScore == InitScore /\ [][NextScore]_vars

\* --------------------------------------------------------- shuffle harness
\* strings over three characters, repeated characters included
ShuffleInputs == UNION { [1..k -> { "a", "b", "c" }] : k \in 0..MaxShuffleLen }

InitShuffle ==
  /\ Constructed
  /\ scoreInput = << >>
  /\ scoreResult = << >>
  /\ shuffleInput \in ShuffleInputs
  /\ shuffleTape \in Tapes
  /\ shuffleResult = << >>

\* the harness calls shuffleString(shuffleInput)
Shuffle ==
  /\ shuffleResult = << >>
  /\ shuffleResult' = << shuffleString(shuffleInput, shuffleTape, 0) >>
  /\ UNCHANGED << rev, generationVars, event, nEvents, scoreInput, scoreResult,
                  copyVars, shuffleInput, shuffleTape >>

NextShuffle == Shuffle

SpecShuffle == InitShuffle /\ [][NextShuffle]_vars

\* ------------------------------------------------------------------ claims
InClass(c, charset) == c \in Range(charset)

EnabledCount ==
  Bonus(uppercaseCheckbox) + Bonus(lowercaseCheckbox)
  + Bonus(numbersCheckbox) + Bonus(symbolsCheckbox)

Contains(password, charset) == Range(password) \cap Range(charset) # {}

\* a step in which generatePassword() runs
GeneratePasswordStep ==
  \/ event' \in { "input", "change", "click" }
  \/ event' = "keydown" /\ rev = 1

Labels == << "Too Weak", "Weak", "Medium", "Strong", "Very Strong" >>

\* C1 (as claimed): whenever generatePassword has built a password, the
\* password has exactly as many characters as the slider asks for, also when
\* the length is smaller than the number of enabled classes.
C1_ExactLength ==
  signal = "Generated" => Len(lastPassword) = lengthSlider

\* C2: when the length is at least the number of enabled classes, the password
\* built (after the shuffle) has a character of every enabled class.
C2_Coverage ==
  (signal = "Generated" /\ lengthSlider >= EnabledCount) =>
    /\ uppercaseCheckbox => Contains(lastPassword, uppercase)
    /\ lowercaseCheckbox => Contains(lastPassword, lowercase)
    /\ numbersCheckbox => Contains(lastPassword, numbers)
    /\ symbolsCheckbox => Contains(lastPassword, symbols)

\* a three-class password of length 3 whose first character is not the
\* uppercase one the first draw put there
C2_Witness ==
  /\ signal = "Generated"
  /\ event = "generateTestPassword"
  /\ lengthSlider = 3
  /\ uppercaseCheckbox /\ lowercaseCheckbox /\ numbersCheckbox /\ ~symbolsCheckbox
  /\ Len(lastPassword) = 3
  /\ ~InClass(lastPassword[1], uppercase)

\* C3: every character of a password built belongs to the alphabet of an
\* enabled class.
C3_Alphabet ==
  signal = "Generated" =>
    \A i \in 1..Len(lastPassword) :
      \/ uppercaseCheckbox /\ InClass(lastPassword[i], uppercase)
      \/ lowercaseCheckbox /\ InClass(lastPassword[i], lowercase)
      \/ numbersCheckbox /\ InClass(lastPassword[i], numbers)
      \/ symbolsCheckbox /\ InClass(lastPassword[i], symbols)

\* a digits-only password with characters from the fill loop
C3_Witness ==
  /\ signal = "Generated"
  /\ event = "generateTestPassword"
  /\ lengthSlider = 3
  /\ ~uppercaseCheckbox /\ ~lowercaseCheckbox /\ numbersCheckbox /\ ~symbolsCheckbox
  /\ Len(lastPassword) = 3
  /\ lastPassword[1] # lastPassword[2]

\* C4: generatePassword with length > 0 and no class enabled takes the
\* EmptyConfiguration path: no password is built or scheduled for display, no
\* random number is drawn, and the generate button is disabled afterwards.
C4_EmptyConfiguration ==
  [][ ( /\ GeneratePasswordStep
        /\ lengthSlider' > 0
        /\ ~uppercaseCheckbox' /\ ~lowercaseCheckbox'
        /\ ~numbersCheckbox' /\ ~symbolsCheckbox' )
      => ( /\ signal' = "EmptyConfiguration"
           /\ lastPassword' = lastPassword
           /\ timers' = timers
           /\ passwordOutput' \in { passwordOutput, PleaseSelect }
           /\ draws' = 0
           /\ generateBtnDisabled' ) ]_vars

\* the last box is unchecked after a password had been built
C4_Witness ==
  /\ signal = "EmptyConfiguration"
  /\ event = "change"
  /\ lengthSlider > 0
  /\ EnabledCount = 0
  /\ lastPassword # << >>
  /\ generateBtnDisabled

\* C5: generatePassword with length 0 clears the display, enables the button
\* and shows no strength label, whichever classes are enabled; it is no error.
C5_ZeroLength ==
  [][ (GeneratePasswordStep /\ lengthSlider' = 0)
      => ( /\ signal' = "EmptyString"
           /\ passwordOutput' = << >>
           /\ ~generateBtnDisabled'
           /\ strengthText' = ""
           /\ draws' = 0 ) ]_vars

\* the slider is moved to 0 with a class enabled and a password built before
C5_Witness ==
  /\ signal = "EmptyString"
  /\ event = "input"
  /\ lengthSlider = 0
  /\ EnabledCount > 0
  /\ lastPassword # << >>
  /\ passwordOutput = << >>
  /\ strengthText = ""
  /\ ~generateBtnDisabled

\* the score the spec's section 4.2 describes: no mixed-case bonus
SpecScoreOf(p) ==
  Min(4, Bonus(Len(p) >= 8) + Bonus(Len(p) >= 12) + Bonus(Len(p) >= 16)
         + (Cardinality({ k \in 1..4 :
              Contains(p, << uppercase, lowercase, numbers, symbols >>[k]) }) - 1)
         + Bonus(Contains(p, numbers) /\ Contains(p, symbols)))

\* the score with the bonus for an uppercase and a lowercase letter
MixedCaseScoreOf(p) ==
  Min(4, Bonus(Len(p) >= 8) + Bonus(Len(p) >= 12) + Bonus(Len(p) >= 16)
         + (Cardinality({ k \in 1..4 :
              Contains(p, << uppercase, lowercase, numbers, symbols >>[k]) }) - 1)
         + Bonus(Contains(p, uppercase) /\ Contains(p, lowercase))
         + Bonus(Contains(p, numbers) /\ Contains(p, symbols)))

\* a 10-character string with uppercase, lowercase and digits and no symbol
TenCharThreeClass(p) ==
  /\ Len(p) = 10
  /\ Contains(p, uppercase) /\ Contains(p, lowercase) /\ Contains(p, numbers)
  /\ ~Contains(p, symbols)

\* C6 (as claimed): the score of a non-empty password is min(4, length bonuses
\* + (varietyCount - 1) + digit-and-symbol bonus) and nothing else; a
\* 10-character upper+lower+digit password scores 3.
C6_Original ==
  (scoreResult # << >> /\ scoreInput # << >>) =>
    /\ scoreResult[1] = SpecScoreOf(scoreInput)
    /\ TenCharThreeClass(scoreInput) => scoreResult[1] = 3

\* C6 (amended): the score also counts 1 for a password with both an uppercase
\* and a lowercase letter; a 10-character upper+lower+digit password scores 4.
C6_Amended ==
  (scoreResult # << >> /\ scoreInput # << >>) =>
    /\ scoreResult[1] = MixedCaseScoreOf(scoreInput)
    /\ TenCharThreeClass(scoreInput) => scoreResult[1] = 4

C6_Witness ==
  /\ scoreResult = << 4 >>
  /\ TenCharThreeClass(scoreInput)

\* C7 (as claimed): calculatePasswordStrength returns an integer in 0..4 for
\* every string, the empty one included.
C7_Range ==
  scoreResult # << >> => scoreResult[1] \in 0..4

\* C8: updateStrengthMeter shows the label of the score it is given when a
\* password is in the display, and no label and no filled bar when the display
\* is empty or holds the "Please select" message.
C8_Labels ==
  [][ GeneratePasswordStep =>
        IF passwordOutput' = << >> \/ passwordOutput' = PleaseSelect
          THEN /\ strengthText' = ""
               /\ \A i \in 1..Len(strengthBars') : strengthBars'[i] = ""
          ELSE /\ meterArg' \in 0..4
               /\ strengthText' = Labels[meterArg' + 1] ]_vars

\* score 0 with a password in the display: "Too Weak", not an empty label
C8_Witness ==
  /\ event \in { "input", "change", "click", "keydown" }
  /\ passwordOutput # << >>
  /\ passwordOutput # PleaseSelect
  /\ meterArg = 0
  /\ strengthText = "Too Weak"

\* C9 (as claimed): after a successful generation, once its display update has
\* run, the label shown is the label of the score of the password shown.
C9_LabelOfShownPassword ==
  (signal = "Generated" /\ timers = << >> /\ passwordOutput = lastPassword) =>
    strengthText = Labels[calculatePasswordStrength(passwordOutput) + 1]

\* C10 (as claimed): when a generation event is handled, no display update of
\* an earlier generation is pending.
C10_NoPendingUpdate ==
  [][ event' \in { "input", "change", "click", "keydown" } => timers = << >> ]_vars

\* C11: a disabled generate button is always recovered from: the button is
\* disabled only while the length is positive and no class is enabled; from a
\* disabled button, a checkbox change that enables a class (length >= 1)
\* enables the button and generates a password, and a slider input to 0
\* enables the button.
C11_Recoverable ==
  [][ /\ ( /\ generateBtnDisabled
           /\ event' = "change"
           /\ lengthSlider' >= 1
           /\ EnabledCount' > 0 )
         => ( /\ ~generateBtnDisabled'
              /\ signal' = "Generated"
              /\ Len(lastPassword') >= 1
              /\ (timers' = Append(timers, lastPassword') \/ passwordOutput' = lastPassword') )
      /\ (generateBtnDisabled /\ event' = "input" /\ lengthSlider' = 0)
         => ~generateBtnDisabled'
      /\ generateBtnDisabled' => (lengthSlider' > 0 /\ EnabledCount' = 0) ]_vars

\* revision 1 right after the recovering checkbox change: the message is still
\* in the display, the new password is scheduled, the button is enabled
C11_Witness ==
  /\ event = "change"
  /\ signal = "Generated"
  /\ passwordOutput = PleaseSelect
  /\ timers = << lastPassword >>
  /\ EnabledCount > 0
  /\ ~generateBtnDisabled

CopyEvents ==
  { "copy", "keydownCopy", "copyWritten", "copyFallback", "copyUnsupported",
    "copyFailed", "copyHidden" }

\* C12: no step of a copy request (the click or key, the clipboard write
\* succeeding, the fallback, a skipped request, the message being hidden)
\* changes the displayed password, the length, the four toggles, the strength
\* label or the button's enabled state.
C12_CopyFrame ==
  [][ event' \in CopyEvents =>
        UNCHANGED << passwordOutput, lengthSlider, uppercaseCheckbox,
                     lowercaseCheckbox, numbersCheckbox, symbolsCheckbox,
                     strengthText, generateBtnDisabled >> ]_vars

\* the fallback has copied the password that is in the display
C12_Witness ==
  /\ event = "copyFallback"
  /\ HasPassword(passwordOutput)
  /\ clipboard = passwordOutput
  /\ copySuccess

CountOf(str, c) == Cardinality({ i \in 1..Len(str) : str[i] = c })

\* C13: shuffleString returns a permutation of its input (same length, every
\* character as often as in the input), every swap index j is in 0..i, and
\* the empty and the one-character string come back unchanged.
C13_Permutation ==
  shuffleResult # << >> =>
    /\ Len(shuffleResult[1]) = Len(shuffleInput)
    /\ \A c \in Range(shuffleInput) \cup Range(shuffleResult[1]) :
         CountOf(shuffleResult[1], c) = CountOf(shuffleInput, c)
    /\ \A i \in 1..(Len(shuffleInput) - 1) :
         ShuffleIndex(i, shuffleTape, Len(shuffleInput) - 1 - i) \in 0..i
    /\ Len(shuffleInput) <= 1 => shuffleResult[1] = shuffleInput

\* a four-character string with a repeated character that came back reordered
C13_Witness ==
  /\ shuffleResult # << >>
  /\ shuffleInput = << "a", "b", "a", "c" >>
  /\ shuffleResult[1] # shuffleInput

\* C14 (as claimed): while the length is 0 the display is empty: no display
\* update of an earlier generation puts a password back after the zero-length
\* request has cleared it.
C14_StaysEmpty ==
  lengthSlider = 0 => passwordOutput = << >>

toggles ==
  << uppercaseCheckbox, lowercaseCheckbox, numbersCheckbox, symbolsCheckbox >>

\* C15: in revision 2 isFirstGenerate never becomes true again; a click with
\* the flag set writes length 8 and upper, lower, digits on, symbols off and
\* clears the flag, a click with the flag cleared leaves length and toggles as
\* they are; a slider input changes the length only, a checkbox change one
\* toggle only, and no other step changes the length, a toggle or the flag.
C15_FirstClickOnly ==
  [][ rev = 2 =>
        /\ isFirstGenerate' => isFirstGenerate
        /\ event' = "click" =>
             /\ ~isFirstGenerate'
             /\ IF isFirstGenerate
                  THEN /\ lengthSlider' = 8
                       /\ toggles' = << TRUE, TRUE, TRUE, FALSE >>
                  ELSE UNCHANGED << lengthSlider, toggles >>
        /\ event' = "input" => UNCHANGED << toggles, isFirstGenerate >>
        /\ event' = "change" =>
             /\ UNCHANGED << lengthSlider, isFirstGenerate >>
             /\ Cardinality({ k \in 1..4 : toggles'[k] # toggles[k] }) = 1
        /\ event' \notin { "click", "input", "change" } =>
             UNCHANGED << lengthSlider, toggles, isFirstGenerate >> ]_vars

\* a later click in revision 2 that kept the length the user had set
C15_Witness ==
  /\ rev = 2
  /\ event = "click"
  /\ ~isFirstGenerate
  /\ signal = "Generated"
  /\ lengthSlider = 2

\* C16 (as claimed): once the last generation was a successful one and every
\* display timer has fired, the display shows the password of that generation
\* and the score last given to the strength meter is the score of that password.
C16_LastGenerationShown ==
  (signal = "Generated" /\ timers = << >>) =>
    /\ passwordOutput = lastPassword
    /\ meterArg = calculatePasswordStrength(lastPassword)

====
